---- MODULE Spec2Model ----
(***************************************************************************)
(* runtime-format: the template parser (parser.rs), the ad hoc rendering   *)
(* engine Formatter and the one-shot entry point format (lib.rs), and the  *)
(* precompiled template Format / CompiledFmt (compiled.rs).                *)
(*                                                                         *)
(* A template is a sequence of one-character strings.  One step of a       *)
(* rendering loop (one Parser::next call, or one cached segment) is one    *)
(* action, so the order of writes and resolver calls is observable.        *)
(***************************************************************************)
EXTENDS Integers, Sequences, FiniteSets, TLC

\* ------------------------------------------------------------------ bounds
MaxLen == 5
MaxCap == 2

\* ------------------------------------------------------------------ inputs
Chars == {"{", "}", "a"}

Templates == UNION {[1..n -> Chars] : n \in 0..MaxLen}

\* key names a resolver instance may know; every other name is unknown to it
BaseKeys == {<<>>, <<"a">>}

\* a resolver instance: what FormatKey::fmt does for each key name
Resolvers == [BaseKeys -> {"value", "unknown", "fmt"}]

\* the text a resolver writes for a key it knows; it contains delimiter
\* characters, so output that was parsed again would show
ValueOf(key) == IF key = <<>> THEN <<"}">> ELSE <<"{", "W">>

\* a resolver type's static predicate: the trait default, or a declared list
DefaultPredicate == [declared |-> FALSE, keys |-> {}]

Predicates == {DefaultPredicate} \cup {[declared |-> TRUE, keys |-> K] : K \in SUBSET BaseKeys}

\* ------------------------------------------------------------ segment model
Literal(t) == [kind |-> "Literal", text |-> t]

Key(t) == [kind |-> "Key", text |-> t]

DefaultSegment == Literal(<<>>)

\* Cell<Option<FormatError>>: the slot and the errors it can hold
NoError == [kind |-> "None", payload |-> <<>>]

KeyError(k) == [kind |-> "Key", payload |-> k]

ParseError(rest) == [kind |-> "Parse", payload |-> rest]

\* ------------------------------------------------------------------ parser
\* str::split_once(c): the text before the first c and the text after it
SplitOnce(str, c) ==
    IF \E i \in 1..Len(str) : str[i] = c
    THEN LET i == CHOOSE i \in 1..Len(str) :
                      str[i] = c /\ \A j \in 1..(i - 1) : str[j] # c
         IN  [found |-> TRUE, prefix |-> SubSeq(str, 1, i - 1),
              rest |-> SubSeq(str, i + 1, Len(str))]
    ELSE [found |-> FALSE, prefix |-> <<>>, rest |-> <<>>]

\* mutant of EscapedNext: the escaped literal is cut one character short
EscapedNextShort(str) ==
    LET sp == SplitOnce(Tail(str), "{")
    IN  IF ~sp.found
        THEN [some |-> TRUE, seg |-> Literal(str), s |-> <<>>, is_key |-> FALSE]
        ELSE [some |-> TRUE, seg |-> Literal(SubSeq(str, 1, Len(sp.prefix))),
              s |-> sp.rest, is_key |-> TRUE]

\* mutant of EscapedNext: the escaped "{" is left out of a final literal
EscapedNextDropsBrace(str) ==
    LET sp == SplitOnce(Tail(str), "{")
    IN  IF ~sp.found
        THEN [some |-> TRUE, seg |-> Literal(Tail(str)), s |-> <<>>, is_key |-> FALSE]
        ELSE [some |-> TRUE, seg |-> Literal(SubSeq(str, 1, Len(sp.prefix) + 1)),
              s |-> sp.rest, is_key |-> TRUE]

\* is_key, input starts with "{": an escaped "{" and the literal text after it
EscapedNext(str) ==
    LET sp == SplitOnce(Tail(str), "{")
    IN  IF ~sp.found
        THEN [some |-> TRUE, seg |-> Literal(str), s |-> <<>>, is_key |-> FALSE]
        ELSE [some |-> TRUE, seg |-> Literal(SubSeq(str, 1, Len(sp.prefix) + 1)),
              s |-> sp.rest, is_key |-> TRUE]

\* mutant of KeyNext: the character after the closing "}" is skipped too
KeyNextEatsNext(str) ==
    LET sp == SplitOnce(str, "}")
    IN  IF sp.found
        THEN [some |-> TRUE, seg |-> Key(sp.prefix),
              s |-> IF sp.rest = <<>> THEN <<>> ELSE Tail(sp.rest), is_key |-> FALSE]
        ELSE [some |-> FALSE, seg |-> DefaultSegment, s |-> str, is_key |-> TRUE]

\* mutant of KeyNext: the key name keeps its closing delimiter
KeyNextKeepsBrace(str) ==
    LET sp == SplitOnce(str, "}")
    IN  IF sp.found
        THEN [some |-> TRUE, seg |-> Key(sp.prefix \o <<"}">>), s |-> sp.rest, is_key |-> FALSE]
        ELSE [some |-> FALSE, seg |-> DefaultSegment, s |-> str, is_key |-> TRUE]

\* is_key, input does not start with "{": the key name up to the next "}"
KeyNext(str) ==
    LET sp == SplitOnce(str, "}")
    IN  IF sp.found
        THEN [some |-> TRUE, seg |-> Key(sp.prefix), s |-> sp.rest, is_key |-> FALSE]
        ELSE [some |-> FALSE, seg |-> DefaultSegment, s |-> str, is_key |-> TRUE]

\* mutant of LiteralNext: the opening delimiter is left in the input
LiteralNextKeepsOpen(str) ==
    LET sp == SplitOnce(str, "{")
    IN  IF ~sp.found
        THEN [some |-> TRUE, seg |-> Literal(str), s |-> <<>>, is_key |-> FALSE]
        ELSE [some |-> TRUE, seg |-> Literal(sp.prefix), s |-> <<"{">> \o sp.rest, is_key |-> TRUE]

\* mutant of LiteralNext: the final literal is not yielded
LiteralNextNoTail(str) ==
    LET sp == SplitOnce(str, "{")
    IN  IF ~sp.found
        THEN [some |-> FALSE, seg |-> DefaultSegment, s |-> str, is_key |-> FALSE]
        ELSE [some |-> TRUE, seg |-> Literal(sp.prefix), s |-> sp.rest, is_key |-> TRUE]

\* not is_key: the literal text up to the next "{"
LiteralNext(str) ==
    LET sp == SplitOnce(str, "{")
    IN  IF ~sp.found
        THEN [some |-> TRUE, seg |-> Literal(str), s |-> <<>>, is_key |-> FALSE]
        ELSE [some |-> TRUE, seg |-> Literal(sp.prefix), s |-> sp.rest, is_key |-> TRUE]

\* Parser::next: the segment (if any) and the parser's fields after the call
ParserNext(str, k) ==
    IF str = <<>> THEN [some |-> FALSE, seg |-> DefaultSegment, s |-> str, is_key |-> k]
    ELSE IF k THEN (IF Head(str) = "{" THEN EscapedNext(str) ELSE KeyNext(str))
    ELSE LiteralNext(str)

\* mutant of Collect: the parser left behind has lost its remainder
RECURSIVE CollectLosesRest(_, _, _)
CollectLosesRest(str, k, acc) ==
    LET n == ParserNext(str, k)
    IN  IF n.some THEN CollectLosesRest(n.s, n.is_key, Append(acc, n.seg))
        ELSE [segments |-> acc, s |-> <<>>, is_key |-> n.is_key]

\* segments.by_ref().collect(): every segment, and the parser left behind
RECURSIVE Collect(_, _, _)
Collect(str, k, acc) ==
    LET n == ParserNext(str, k)
    IN  IF n.some THEN Collect(n.s, n.is_key, Append(acc, n.seg))
        ELSE [segments |-> acc, s |-> n.s, is_key |-> n.is_key]

\* -------------------------------------------------------------------- sink
\* mutant of WriteStr: the String puts new text in front of the old
WriteStrInFront(kind, capacity, buf, text) ==
    IF kind = "String" THEN [ok |-> TRUE, out |-> text \o buf]
    ELSE LET remaining == capacity - Len(buf)
         IN  IF remaining <= Len(text)
             THEN [ok |-> FALSE, out |-> buf \o SubSeq(text, 1, remaining)]
             ELSE [ok |-> TRUE, out |-> buf \o text]

\* write_str on the sink: a String takes everything; the fixed buffer
\* WriteShim takes what fits and fails unless room is left afterwards
WriteStr(kind, capacity, buf, text) ==
    IF kind = "String" THEN [ok |-> TRUE, out |-> buf \o text]
    ELSE LET remaining == capacity - Len(buf)
         IN  IF remaining <= Len(text)
             THEN [ok |-> FALSE, out |-> buf \o SubSeq(text, 1, remaining)]
             ELSE [ok |-> TRUE, out |-> buf \o text]

\* ---------------------------------------------------------------- resolver
Lookup(r, key) == IF key \in BaseKeys THEN r[key] ELSE "unknown"

\* FormatKey::fmt of a resolver instance, writing into the sink
ResolverFmt(r, key, kind, capacity, buf) ==
    LET what == Lookup(r, key)
        w == WriteStr(kind, capacity, buf, ValueOf(key))
    IN  IF what = "unknown" THEN [res |-> "UnknownKey", out |-> buf]
        ELSE IF what = "fmt" THEN [res |-> "Fmt", out |-> buf]
        ELSE IF w.ok THEN [res |-> "Ok", out |-> w.out]
        ELSE [res |-> "Fmt", out |-> w.out]

\* FormatKey::is_acceptable_key of a resolver type
IsAcceptableKey(p, key) == IF p.declared THEN key \in p.keys ELSE TRUE

\* ------------------------------------------------------------------- state
VARIABLES
    tmpl,       \* the template text
    resolver,   \* the resolver instance
    pred,       \* the resolver type's static predicate
    pc,         \* "start", "fmt", "fmtdone", "compiled", "done"
    entry,      \* which entry point runs: "none", "format", "test", "compiled"
    s,          \* Parser.s
    is_key,     \* Parser.is_key
    segments,   \* Format.segments
    idx,        \* position of CompiledFmt's loop in segments
    sinkKind,   \* "String" or "WriteShim"
    cap,        \* WriteShim: the length of its buffer
    out,        \* what the sink holds
    error,      \* the diagnostic slot of the Formatter / CompiledFmt
    result,     \* what Display::fmt returned: "none", "Ok", "Err"
    ret,        \* what the entry point returned
    calls,      \* history: the keys handed to the resolver, in order
    sinkErr,    \* history: a write was rejected or the resolver returned Fmt
    rebound,    \* history: with_args has been called again after a render
    stale       \* history: what the slot held when this render attempt began

vars == <<tmpl, resolver, pred, pc, entry, s, is_key, segments, idx,
          sinkKind, cap, out, error, result, ret, calls, sinkErr, rebound, stale>>

NoRet == [tag |-> "none", text |-> <<>>, err |-> NoError]

RetOk(text) == [tag |-> "Ok", text |-> text, err |-> NoError]

RetErr(e) == [tag |-> "Err", text |-> <<>>, err |-> e]

RetPanic == [tag |-> "panic", text |-> <<>>, err |-> NoError]

Init ==
    /\ tmpl \in Templates
    /\ resolver \in Resolvers
    /\ pred = DefaultPredicate
    /\ pc = "start"
    /\ entry = "none"
    /\ s = <<>>
    /\ is_key = FALSE
    /\ segments = <<>>
    /\ idx = 1
    /\ sinkKind = "String"
    /\ cap = 0
    /\ out = <<>>
    /\ error = NoError
    /\ result = "none"
    /\ ret = NoRet
    /\ calls = <<>>
    /\ sinkErr = FALSE
    /\ rebound = FALSE
    /\ stale = NoError

\* --------------------------------------------------- ad hoc engine, lib.rs
\* format(): a fresh String and a fresh Formatter, then write!(out, "{fmt}")
FormatCall ==
    /\ pc = "start"
    /\ pc' = "fmt"
    /\ entry' = "format"
    /\ sinkKind' = "String"
    /\ s' = tmpl
    /\ is_key' = FALSE
    /\ error' = NoError
    /\ UNCHANGED <<tmpl, resolver, pred, segments, idx, cap, out, result, ret, calls, sinkErr, rebound, stale>>

\* tests::format(): a fresh WriteShim and a fresh Formatter, then write!
TestFormatCall ==
    /\ pc = "start"
    /\ \E c \in 0..MaxCap : cap' = c
    /\ pc' = "fmt"
    /\ entry' = "test"
    /\ sinkKind' = "WriteShim"
    /\ s' = tmpl
    /\ is_key' = FALSE
    /\ error' = NoError
    /\ UNCHANGED <<tmpl, resolver, pred, segments, idx, out, result, ret, calls, sinkErr, rebound, stale>>

\* the body of both rendering loops for one segment, as a function of the
\* resolver, the sink and st = [out, error, calls]
RenderSegmentIn(seg, r, kind, capacity, st) ==
    IF seg.kind = "Literal"
    THEN LET w == WriteStr(kind, capacity, st.out, seg.text)
         IN  [out |-> w.out, error |-> st.error, calls |-> st.calls,
              result |-> IF w.ok THEN "none" ELSE "Err", sinkErr |-> ~w.ok]
    ELSE LET r2 == ResolverFmt(r, seg.text, kind, capacity, st.out)
         IN  [out |-> r2.out,
              error |-> IF r2.res = "UnknownKey" THEN KeyError(seg.text) ELSE st.error,
              calls |-> Append(st.calls, seg.text),
              result |-> IF r2.res = "Ok" THEN "none" ELSE "Err",
              sinkErr |-> r2.res = "Fmt"]

\* mutant of RenderSegment: an unknown key throws away what was written
RenderSegmentRollsBack(seg) ==
    LET x == RenderSegmentIn(seg, resolver, sinkKind, cap,
                             [out |-> out, error |-> error, calls |-> calls])
    IN  IF x.error.kind = "Key" THEN [x EXCEPT !.out = <<>>] ELSE x

\* mutant of RenderSegment: a rejected key is handed to the resolver again
RenderSegmentRetries(seg) ==
    LET x == RenderSegmentIn(seg, resolver, sinkKind, cap,
                             [out |-> out, error |-> error, calls |-> calls])
    IN  IF x.error.kind = "Key" THEN [x EXCEPT !.calls = Append(x.calls, seg.text)] ELSE x

\* mutant of RenderSegment: an unknown key is recorded but the loop goes on
RenderSegmentGoesOn(seg) ==
    IF seg.kind = "Literal"
    THEN LET w == WriteStr(sinkKind, cap, out, seg.text)
         IN  [out |-> w.out, error |-> error, calls |-> calls,
              result |-> IF w.ok THEN "none" ELSE "Err", sinkErr |-> ~w.ok]
    ELSE LET r == ResolverFmt(resolver, seg.text, sinkKind, cap, out)
         IN  [out |-> r.out,
              error |-> IF r.res = "UnknownKey" THEN KeyError(seg.text) ELSE error,
              calls |-> Append(calls, seg.text),
              result |-> IF r.res = "Fmt" THEN "Err" ELSE "none",
              sinkErr |-> r.res = "Fmt"]

\* mutant of RenderSegment: every resolver failure is recorded as UnknownKey
RenderSegmentMisreports(seg) ==
    IF seg.kind = "Literal"
    THEN LET w == WriteStr(sinkKind, cap, out, seg.text)
         IN  [out |-> w.out, error |-> error, calls |-> calls,
              result |-> IF w.ok THEN "none" ELSE "Err", sinkErr |-> ~w.ok]
    ELSE LET r == ResolverFmt(resolver, seg.text, sinkKind, cap, out)
         IN  [out |-> r.out,
              error |-> IF r.res # "Ok" THEN KeyError(seg.text) ELSE error,
              calls |-> Append(calls, seg.text),
              result |-> IF r.res = "Ok" THEN "none" ELSE "Err",
              sinkErr |-> r.res = "Fmt"]

\* what one segment does to the sink, the slot and the loop
RenderSegment(seg) ==
    RenderSegmentIn(seg, resolver, sinkKind, cap,
                    [out |-> out, error |-> error, calls |-> calls])

\* the end of Formatter's loop as a function of the slot
RenderEndIn(rest, slot) ==
    IF rest # <<>>
    THEN [error |-> ParseError(rest), result |-> "Err"]
    ELSE [error |-> slot, result |-> "Ok"]

\* mutant of RenderEnd: the payload starts at the opening delimiter
RenderEndFromOpen(rest) ==
    IF rest # <<>>
    THEN [error |-> ParseError(<<"{">> \o rest), result |-> "Err"]
    ELSE [error |-> error, result |-> "Ok"]

\* mutant of RenderEnd: the failure is signalled but the slot is not written
RenderEndNoSlot(rest) ==
    IF rest # <<>>
    THEN [error |-> error, result |-> "Err"]
    ELSE [error |-> error, result |-> "Ok"]

\* mutant of RenderEnd: a render that gets to the end empties the slot
RenderEndClearsSlot(rest) ==
    IF rest # <<>>
    THEN [error |-> ParseError(rest), result |-> "Err"]
    ELSE [error |-> NoError, result |-> "Ok"]

\* the end of Formatter's loop: a remainder is a Parse error
RenderEnd(rest) == RenderEndIn(rest, error)

\* <Formatter as Display>::fmt from the parser state (str, k) to its return
RECURSIVE AdHocFmt(_, _, _, _, _, _)
AdHocFmt(str, k, r, kind, capacity, st) ==
    LET n == ParserNext(str, k)
    IN  IF n.some
        THEN LET x == RenderSegmentIn(n.seg, r, kind, capacity, st)
             IN  IF x.result = "none"
                 THEN AdHocFmt(n.s, n.is_key, r, kind, capacity,
                               [out |-> x.out, error |-> x.error, calls |-> x.calls])
                 ELSE x
        ELSE LET e == RenderEndIn(n.s, st.error)
             IN  [out |-> st.out, error |-> e.error, calls |-> st.calls,
                  result |-> e.result, sinkErr |-> FALSE]

\* <Formatter as Display>::fmt, one turn of its loop
FormatterFmt ==
    /\ pc = "fmt"
    /\ entry \in {"format", "test"}
    /\ LET n == ParserNext(s, is_key)
       IN  /\ s' = n.s
           /\ is_key' = n.is_key
           /\ IF n.some
              THEN LET x == RenderSegment(n.seg)
                   IN  /\ out' = x.out
                       /\ error' = x.error
                       /\ calls' = x.calls
                       /\ result' = x.result
                       /\ sinkErr' = x.sinkErr
                       /\ pc' = IF x.result = "none" THEN "fmt" ELSE "fmtdone"
              ELSE LET e == RenderEnd(n.s)
                   IN  /\ error' = e.error
                       /\ result' = e.result
                       /\ pc' = "fmtdone"
                       /\ UNCHANGED <<out, calls, sinkErr>>
    /\ UNCHANGED <<tmpl, resolver, pred, entry, segments, idx, sinkKind, cap, ret, rebound, stale>>

\* mutant of FormatResult: the slot is returned without looking into it
FormatResultNoPanic(res, slot, text) ==
    IF res = "Ok" THEN RetOk(text) ELSE RetErr(slot)

\* format(): the match on write!'s result
FormatResult(res, slot, text) ==
    IF res = "Ok" THEN RetOk(text)
    ELSE IF slot.kind # "None" THEN RetErr(slot)
    ELSE RetPanic

FormatReturn ==
    /\ pc = "fmtdone"
    /\ entry = "format"
    /\ ret' = FormatResult(result, error, out)
    /\ error' = IF result = "Ok" THEN error ELSE NoError
    /\ pc' = "done"
    /\ UNCHANGED <<tmpl, resolver, pred, entry, s, is_key, segments, idx,
                   sinkKind, cap, out, result, calls, sinkErr, rebound, stale>>

\* tests::format(): write!'s result is dropped, the slot decides
TestFormatResult(slot, text) ==
    IF slot.kind # "None" THEN RetErr(slot) ELSE RetOk(text)

TestFormatReturn ==
    /\ pc = "fmtdone"
    /\ entry = "test"
    /\ ret' = TestFormatResult(error, out)
    /\ error' = NoError
    /\ pc' = "done"
    /\ UNCHANGED <<tmpl, resolver, pred, entry, s, is_key, segments, idx,
                   sinkKind, cap, out, result, calls, sinkErr, rebound, stale>>

\* ------------------------------------------ precompiled template, compiled.rs
\* mutant of UnknownKeys: a key with an empty name is never checked
UnknownKeysNamedOnly(segs, p) ==
    SelectSeq(segs, LAMBDA g : g.kind = "Key" /\ g.text # <<>> /\ ~IsAcceptableKey(p, g.text))

\* the first key of the cached segments the static predicate rejects
UnknownKeys(segs, p) ==
    SelectSeq(segs, LAMBDA g : g.kind = "Key" /\ ~IsAcceptableKey(p, g.text))

\* mutant of FormatNewResult: the last rejected key is reported
FormatNewResultLastKey(c, p) ==
    IF c.s # <<>> THEN RetErr(ParseError(c.s))
    ELSE IF UnknownKeys(c.segments, p) # <<>>
         THEN RetErr(KeyError(UnknownKeys(c.segments, p)[Len(UnknownKeys(c.segments, p))].text))
    ELSE RetOk(<<>>)

\* mutant of FormatNewResult: a rejected key is looked for before the remainder
FormatNewResultKeyFirst(c, p) ==
    IF UnknownKeys(c.segments, p) # <<>>
    THEN RetErr(KeyError(Head(UnknownKeys(c.segments, p)).text))
    ELSE IF c.s # <<>> THEN RetErr(ParseError(c.s))
    ELSE RetOk(<<>>)

\* Format::new's result
FormatNewResult(c, p) ==
    IF c.s # <<>> THEN RetErr(ParseError(c.s))
    ELSE IF UnknownKeys(c.segments, p) # <<>>
         THEN RetErr(KeyError(Head(UnknownKeys(c.segments, p)).text))
    ELSE RetOk(<<>>)

\* Format::<F>::new(tmpl)
FormatNew ==
    /\ pc = "start"
    /\ \E p \in Predicates :
         LET c == Collect(tmpl, FALSE, <<>>)
             r == FormatNewResult(c, p)
         IN  /\ pred' = p
             /\ s' = c.s
             /\ is_key' = c.is_key
             /\ segments' = c.segments
             /\ ret' = r
             /\ pc' = IF r.tag = "Ok" THEN "compiled" ELSE "done"
    /\ entry' = "compiled"
    /\ UNCHANGED <<tmpl, resolver, idx, sinkKind, cap, out, error, result, calls, sinkErr, rebound, stale>>

\* mutant of WithArgs: the renderer starts after the first cached segment
WithArgsSkipsFirst ==
    /\ entry = "compiled"
    /\ pc \in {"compiled", "fmtdone"}
    /\ rebound' = (rebound \/ pc = "fmtdone")
    /\ IF pc = "compiled"
       THEN /\ resolver' = resolver
            /\ \/ sinkKind' = "String" /\ cap' = 0
               \/ sinkKind' = "WriteShim" /\ \E c \in 0..MaxCap : cap' = c
       ELSE /\ \E r \in Resolvers : resolver' = r
            /\ UNCHANGED <<sinkKind, cap>>
    /\ out' = <<>>
    /\ error' = NoError
    /\ idx' = 2
    /\ result' = "none"
    /\ calls' = <<>>
    /\ sinkErr' = FALSE
    /\ pc' = "fmt"
    /\ stale' = NoError
    /\ UNCHANGED <<tmpl, pred, entry, s, is_key, segments, ret>>

\* mutant of WithArgs: the new renderer shares the slot of the one before
WithArgsSharedSlot ==
    /\ entry = "compiled"
    /\ pc \in {"compiled", "fmtdone"}
    /\ rebound' = (rebound \/ pc = "fmtdone")
    /\ IF pc = "compiled"
       THEN /\ resolver' = resolver
            /\ \/ sinkKind' = "String" /\ cap' = 0
               \/ sinkKind' = "WriteShim" /\ \E c \in 0..MaxCap : cap' = c
       ELSE /\ \E r \in Resolvers : resolver' = r
            /\ UNCHANGED <<sinkKind, cap>>
    /\ out' = <<>>
    /\ error' = error
    /\ idx' = 1
    /\ result' = "none"
    /\ calls' = <<>>
    /\ sinkErr' = FALSE
    /\ pc' = "fmt"
    /\ stale' = NoError
    /\ UNCHANGED <<tmpl, pred, entry, s, is_key, segments, ret>>

\* Format::with_args(fmt): a fresh CompiledFmt over the cached segments, bound
\* to the resolver instance fmt, and the empty sink the caller renders it
\* into.  The first call binds the caller's resolver and picks the sink;
\* after a render the template can be bound again, to any resolver instance,
\* with an empty sink of the same kind
WithArgs ==
    /\ entry = "compiled"
    /\ pc \in {"compiled", "fmtdone"}
    /\ rebound' = (rebound \/ pc = "fmtdone")
    /\ IF pc = "compiled"
       THEN /\ resolver' = resolver
            /\ \/ sinkKind' = "String" /\ cap' = 0
               \/ sinkKind' = "WriteShim" /\ \E c \in 0..MaxCap : cap' = c
       ELSE /\ \E r \in Resolvers : resolver' = r
            /\ UNCHANGED <<sinkKind, cap>>
    /\ out' = <<>>
    /\ error' = NoError
    /\ idx' = 1
    /\ result' = "none"
    /\ calls' = <<>>
    /\ sinkErr' = FALSE
    /\ pc' = "fmt"
    /\ stale' = NoError
    /\ UNCHANGED <<tmpl, pred, entry, s, is_key, segments, ret>>

\* write!(sink, "{fmt}") once more on the Formatter / CompiledFmt whose
\* render left an error in the slot that nobody has taken: Display::fmt
\* starts again (a new Parser over self.s, or the first cached segment)
\* with the slot as it is, writing into an empty sink of the same kind;
\* the resolver behind the shared reference may answer differently now
Rerender ==
    /\ pc = "fmtdone"
    /\ entry \in {"test", "compiled"}
    /\ error.kind # "None"
    /\ \E r \in Resolvers : resolver' = r
    /\ stale' = error
    /\ error' = error
    /\ s' = IF entry = "test" THEN tmpl ELSE s
    /\ is_key' = IF entry = "test" THEN FALSE ELSE is_key
    /\ idx' = 1
    /\ out' = <<>>
    /\ result' = "none"
    /\ calls' = <<>>
    /\ sinkErr' = FALSE
    /\ pc' = "fmt"
    /\ UNCHANGED <<tmpl, pred, entry, segments, sinkKind, cap, ret, rebound>>

\* <CompiledFmt as Display>::fmt, one turn of its loop
CompiledFmtFmt ==
    /\ pc = "fmt"
    /\ entry = "compiled"
    /\ IF idx <= Len(segments)
       THEN LET x == RenderSegment(segments[idx])
            IN  /\ out' = x.out
                /\ error' = x.error
                /\ calls' = x.calls
                /\ result' = x.result
                /\ sinkErr' = x.sinkErr
                /\ idx' = idx + 1
                /\ pc' = IF x.result = "none" THEN "fmt" ELSE "fmtdone"
       ELSE /\ result' = "Ok"
            /\ pc' = "fmtdone"
            /\ UNCHANGED <<out, error, calls, sinkErr, idx>>
    /\ UNCHANGED <<tmpl, resolver, pred, entry, s, is_key, segments, sinkKind, cap, ret, rebound, stale>>

Next ==
    \/ FormatCall
    \/ TestFormatCall
    \/ FormatterFmt
    \/ FormatReturn
    \/ TestFormatReturn
    \/ FormatNew
    \/ WithArgs
    \/ Rerender
    \/ CompiledFmtFmt

Spec == Init /\ [][Next]_vars

\* ------------------------------------------------- reading a template
\* Fmt::fmt has returned (the render attempt is over)
Rendered == result # "none"

\* the slot was empty when this render attempt began: the engine is used
\* for one render, or an earlier error of it has not been left behind
FreshEngine == stale = NoError

\* the segments of the template, as a fresh parser yields them
Parsed == Collect(tmpl, FALSE, <<>>)

KeyIndexes ==
    LET segs == Parsed.segments
    IN  {i \in 1..Len(segs) : segs[i].kind = "Key"}

AllKeysResolve ==
    LET segs == Parsed.segments
    IN  \A i \in 1..Len(segs) :
            segs[i].kind = "Key" => Lookup(resolver, segs[i].text) = "value"

RejectedIndexes ==
    LET segs == Parsed.segments
    IN  {i \in 1..Len(segs) :
            segs[i].kind = "Key" /\ Lookup(resolver, segs[i].text) = "unknown"}

FirstRejected ==
    LET rejected == RejectedIndexes
    IN  CHOOSE i \in rejected : \A j \in rejected : i <= j

\* literals verbatim, every key replaced by the text the resolver writes
RECURSIVE Expand(_)
Expand(segs) ==
    IF segs = <<>> THEN <<>>
    ELSE (IF Head(segs).kind = "Literal" THEN Head(segs).text ELSE ValueOf(Head(segs).text))
         \o Expand(Tail(segs))

\* The template syntax of the specification read character by character:
\* the position of the opening delimiter that is still unmatched at the end
\* of the template, or 0.  mode "lit": literal text; "open": just after an
\* opening delimiter; "key": inside a key name.
RECURSIVE ScanOpen(_, _, _, _)
ScanOpen(t, i, mode, open) ==
    IF i > Len(t) THEN (IF mode = "lit" THEN 0 ELSE open)
    ELSE IF mode = "lit"
         THEN (IF t[i] = "{" THEN ScanOpen(t, i + 1, "open", i) ELSE ScanOpen(t, i + 1, "lit", 0))
    ELSE IF mode = "open"
         THEN (IF t[i] \in {"{", "}"} THEN ScanOpen(t, i + 1, "lit", 0)
               ELSE ScanOpen(t, i + 1, "key", open))
    ELSE (IF t[i] = "}" THEN ScanOpen(t, i + 1, "lit", 0) ELSE ScanOpen(t, i + 1, "key", open))

UnmatchedOpen(t) == ScanOpen(t, 1, "lit", 0)

AfterUnmatchedOpen(t) == SubSeq(t, UnmatchedOpen(t) + 1, Len(t))

\* every maximal run of "{" has even length
RECURSIVE OnlyDoubled(_)
OnlyDoubled(t) ==
    IF t = <<>> THEN TRUE
    ELSE IF Head(t) # "{" THEN OnlyDoubled(Tail(t))
    ELSE Len(t) >= 2 /\ t[2] = "{" /\ OnlyDoubled(SubSeq(t, 3, Len(t)))

\* every doubled "{" replaced by one
RECURSIVE Undouble(_)
Undouble(t) ==
    IF t = <<>> THEN <<>>
    ELSE IF Head(t) = "{" /\ Len(t) >= 2 /\ t[2] = "{"
         THEN <<"{">> \o Undouble(SubSeq(t, 3, Len(t)))
    ELSE <<Head(t)>> \o Undouble(Tail(t))

\* --------------------------------------------------------------- claims

\* C1: a well-formed template (no remainder) whose keys the resolver all
\* accepts renders successfully, and the output is the in-order concatenation
\* of the literals and of the text the resolver writes for each key; the
\* one-shot format returns exactly that text.
C1_HappyPath ==
    (Rendered /\ ~sinkErr /\ Parsed.s = <<>> /\ AllKeysResolve) =>
        LET text == Expand(Parsed.segments)
        IN  /\ result = "Ok"
            /\ out = text
            /\ (FreshEngine => error.kind = "None")
            /\ (pc = "done" /\ entry = "format" =>
                    ret = [tag |-> "Ok", text |-> text, err |-> NoError])

C1_Witness ==
    /\ pc = "done"
    /\ entry = "format"
    /\ tmpl = <<"a", "{", "a", "}", "a">>
    /\ ret.tag = "Ok"
    /\ ret.text = <<"a", "{", "W", "a">>

\* C2: when the resolver reports unknown for a key of the template (and no
\* sink failure came first) the render fails with UnknownKey carrying the
\* name, without delimiters, of the first rejected Key segment.
C2_UnknownKey ==
    (Rendered /\ ~sinkErr /\ RejectedIndexes # {}) =>
        /\ result = "Err"
        /\ (pc = "fmtdone" =>
                error = [kind |-> "Key", payload |-> Parsed.segments[FirstRejected].text])
        /\ (pc = "done" =>
                /\ ret.tag = "Err"
                /\ ret.err = [kind |-> "Key", payload |-> Parsed.segments[FirstRejected].text])

C2_Witness ==
    /\ pc = "done"
    /\ entry = "format"
    /\ tmpl = <<"{", "a", "}", "{", "}">>
    /\ resolver[<<"a">>] = "value"
    /\ ret.tag = "Err"
    /\ ret.err = [kind |-> "Key", payload |-> <<>>]

\* C3: a placeholder opened with "{" that no "}" follows, every earlier key
\* resolving, makes the one-shot render fail with Parse whose payload is the
\* text after the unmatched "{" up to the end of the template.
C3_ParsePayloadAfterOpen ==
    (pc = "done" /\ entry = "format" /\ UnmatchedOpen(tmpl) # 0 /\ AllKeysResolve) =>
        /\ ret.tag = "Err"
        /\ ret.err = [kind |-> "Parse", payload |-> AfterUnmatchedOpen(tmpl)]

\* C4: every template with an unmatched "{", one that ends in that "{"
\* included, fails with Parse in the one-shot render (its earlier keys
\* resolving) and in the construction of a precompiled template.
C4_UnmatchedOpenFails ==
    UnmatchedOpen(tmpl) # 0 =>
        /\ (pc = "done" /\ entry = "format" /\ AllKeysResolve =>
                ret.tag = "Err" /\ ret.err.kind = "Parse")
        /\ (entry = "compiled" => ret.tag = "Err" /\ ret.err.kind = "Parse")

\* C5 as stated: the payload of a Parse error starts with the unmatched "{".
C5_PayloadStartsAtOpen ==
    /\ (error.kind = "Parse" => error.payload # <<>> /\ Head(error.payload) = "{")
    /\ (ret.err.kind = "Parse" => ret.err.payload # <<>> /\ Head(ret.err.payload) = "{")

\* what C5 as amended says of a Parse payload p
ParsePayloadOK(p) ==
    /\ p # <<>>
    /\ UnmatchedOpen(tmpl) # 0
    /\ p = AfterUnmatchedOpen(tmpl)
    /\ Head(p) # "{"
    /\ \A i \in 1..Len(p) : p[i] # "}"

\* C5 as amended: the payload of a Parse error is the non-empty unconsumed
\* suffix that starts just after the unmatched "{"; the "{" itself is
\* consumed, so the payload never starts with it, and it holds no "}".
C5_PayloadAfterOpen ==
    /\ (error.kind = "Parse" => ParsePayloadOK(error.payload))
    /\ (ret.err.kind = "Parse" => ParsePayloadOK(ret.err.payload))

C5_Witness ==
    /\ pc = "done"
    /\ entry = "format"
    /\ tmpl = <<"a", "{", "a", "{">>
    /\ ret.err = [kind |-> "Parse", payload |-> <<"a", "{">>]

\* C6: escape law.  In a template whose "{" all come doubled, every run of
\* 2k "{" renders as k "{", without a closing delimiter, a Parse error or a
\* resolver call.
C6_EscapeLaw ==
    (Rendered /\ OnlyDoubled(tmpl) /\ ~sinkErr) =>
        /\ result = "Ok"
        /\ out = Undouble(tmpl)
        /\ calls = <<>>
        /\ error.kind = "None"
        /\ (pc = "done" => ret.tag = "Ok" /\ ret.text = Undouble(tmpl))

C6_Witness ==
    /\ pc = "done"
    /\ entry = "format"
    /\ tmpl = <<"{", "{", "{", "{", "a">>
    /\ ret.tag = "Ok"
    /\ ret.text = <<"{", "{", "a">>

\* C7: round trip.  A template without "{" (the empty one included) renders
\* to itself under any resolver, with no resolver call and no error.
C7_RoundTrip ==
    (Rendered /\ (\A i \in 1..Len(tmpl) : tmpl[i] # "{") /\ ~sinkErr) =>
        /\ result = "Ok"
        /\ out = tmpl
        /\ calls = <<>>
        /\ error.kind = "None"
        /\ (pc = "done" => ret.tag = "Ok" /\ ret.text = tmpl)

C7_Witness ==
    /\ pc = "done"
    /\ entry = "format"
    /\ tmpl = <<"a", "}", "a">>
    /\ resolver[<<"a">>] = "unknown"
    /\ ret.tag = "Ok"
    /\ ret.text = <<"a", "}", "a">>

\* C8: a sink failure (the resolver returns Fmt, or the sink rejects a
\* write) makes the render return the generic failure and does not write
\* the slot, which for a per-render engine stays empty; it is never
\* recorded or reported as UnknownKey or Parse, by the ad hoc engine or by
\* the precompiled renderer.
C8_SinkFailure ==
    sinkErr =>
        /\ result = "Err"
        /\ (pc = "fmtdone" => error = stale)
        /\ (FreshEngine => error.kind = "None" /\ ret.tag # "Err")

C8_Witness ==
    /\ pc = "fmtdone"
    /\ entry = "compiled"
    /\ sinkErr
    /\ calls # <<>>
    /\ out # <<>>

\* the causes of a failed render, read off the state
UnknownKeyFailure ==
    calls # <<>> /\ Lookup(resolver, calls[Len(calls)]) = "unknown"

ParseFailure ==
    /\ entry \in {"format", "test"}
    /\ ~UnknownKeyFailure
    /\ ~sinkErr
    /\ s # <<>>

\* C9: for a fresh engine the slot is empty while the render runs and is
\* written at most once, by the step that ends the render; after the render
\* it is occupied exactly when the render failed with UnknownKey or Parse,
\* and then holds that error; a successful render leaves it empty.
C9_SlotAfterRender ==
    /\ (pc = "fmt" /\ FreshEngine => error.kind = "None")
    /\ (pc = "fmtdone" /\ FreshEngine =>
            /\ (error.kind # "None") = (UnknownKeyFailure \/ ParseFailure)
            /\ (error.kind # "None") = (result = "Err" /\ ~sinkErr)
            /\ (result = "Ok" => error.kind = "None")
            /\ (UnknownKeyFailure =>
                    error = [kind |-> "Key", payload |-> calls[Len(calls)]])
            /\ (ParseFailure => error = [kind |-> "Parse", payload |-> s]))

C9_Witness ==
    /\ pc = "fmtdone"
    /\ entry = "test"
    /\ error.kind = "Parse"
    /\ calls # <<>>

\* C10 as stated: format returns the rendered text or a Render Error and
\* has no other outcome.
C10_TextOrRenderError ==
    (pc = "done" /\ entry = "format") => ret.tag \in {"Ok", "Err"}

\* C10 as amended: format returns the rendered text or a Render Error
\* (UnknownKey or Parse), except that it panics exactly when the resolver
\* reports FormatKeyError::Fmt.
C10_TextErrorOrPanic ==
    (pc = "done" /\ entry = "format") =>
        /\ ret.tag \in {"Ok", "Err", "panic"}
        /\ (ret.tag = "panic") = sinkErr
        /\ (ret.tag = "Ok" => ret.text = out /\ result = "Ok")
        /\ (ret.tag = "Err" => ret.err.kind \in {"Key", "Parse"})

C10_Witness ==
    /\ pc = "done"
    /\ entry = "format"
    /\ ret.tag = "panic"
    /\ out # <<>>
\* how many segments the running or finished render has taken
SegmentsDone ==
    IF entry = "compiled" THEN idx - 1
    ELSE Len(Parsed.segments) - Len(Collect(s, is_key, <<>>).segments)

\* the output of the first n segments
OutputOf(n) == Expand(SubSeq(Parsed.segments, 1, n))

\* C11 as stated: after a failed render the sink holds exactly the output
\* of the segments that precede the failing one.
C11_ExactlyPreceding ==
    (pc = "fmtdone" /\ result = "Err") =>
        out = OutputOf(IF error.kind = "Parse" THEN SegmentsDone ELSE SegmentsDone - 1)

\* C11 as amended: no rollback.  While a render runs the sink holds the
\* output of the segments taken so far; after a failure it still holds, in
\* order, the output of all segments before the failing one, and exactly
\* that after an unknown key or a Parse error; after a sink failure it
\* holds in addition the part of the failing write the sink itself took.
C11_NoRollback ==
    /\ (pc = "fmt" => out = OutputOf(SegmentsDone))
    /\ (pc = "fmtdone" /\ FreshEngine /\ result = "Err" /\ error.kind = "Parse" =>
            out = OutputOf(SegmentsDone))
    /\ (pc = "fmtdone" /\ FreshEngine /\ result = "Err" /\ error.kind = "Key" =>
            out = OutputOf(SegmentsDone - 1))
    /\ (pc = "fmtdone" /\ FreshEngine /\ result = "Err" /\ error.kind = "None" =>
            LET before == OutputOf(SegmentsDone - 1)
                failing == Expand(<<Parsed.segments[SegmentsDone]>>)
            IN  /\ sinkErr
                /\ \E n \in 0..Len(failing) : out = before \o SubSeq(failing, 1, n)
                /\ (sinkKind = "String" => out = before))

C11_Witness ==
    /\ pc = "fmtdone"
    /\ entry = "test"
    /\ tmpl = <<"{", "}", "{", "a", "}">>
    /\ error = [kind |-> "Key", payload |-> <<"a">>]
    /\ out = <<"}">>

\* the Key segments the resolver type's static predicate rejects
StaticRejected ==
    IF ~pred.declared THEN {}
    ELSE LET segs == Parsed.segments
         IN  {i \in 1..Len(segs) : segs[i].kind = "Key" /\ segs[i].text \notin pred.keys}

FirstStaticRejected ==
    LET rejected == StaticRejected
    IN  CHOOSE i \in rejected : \A j \in rejected : i <= j

\* C12: for a well-formed template, construction against a resolver type
\* whose static predicate rejects a key fails with UnknownKey carrying the
\* first rejected Key segment, before any renderer exists; with the default
\* predicate construction succeeds and an unknown key shows up only in the
\* render.
C12_StaticRejection ==
    (entry = "compiled" /\ Parsed.s = <<>>) =>
        /\ LET rejected == StaticRejected
           IN  /\ (rejected # {} =>
                       /\ pc = "done"
                       /\ ret = [tag |-> "Err", text |-> <<>>,
                                 err |-> [kind |-> "Key",
                                          payload |-> Parsed.segments[FirstStaticRejected].text]]
                       /\ ~rebound
                       /\ calls = <<>>
                       /\ result = "none"
                       /\ out = <<>>)
               /\ (rejected = {} => ret.tag = "Ok" /\ pc # "done")
        /\ (~pred.declared /\ Rendered /\ RejectedIndexes # {} /\ ~sinkErr =>
                /\ result = "Err"
                /\ error = [kind |-> "Key", payload |-> Parsed.segments[FirstRejected].text])

C12_Witness ==
    /\ pc = "done"
    /\ entry = "compiled"
    /\ tmpl = <<"{", "a", "}", "{", "}">>
    /\ pred = [declared |-> TRUE, keys |-> {}]
    /\ ret.err = [kind |-> "Key", payload |-> <<"a">>]

\* what a render left behind
Outcome ==
    [out |-> out, error |-> error, calls |-> calls, result |-> result, sinkErr |-> sinkErr]

\* what the ad hoc engine does with the template, this resolver and this
\* sink, from the slot the render began with
AdHocOutcome ==
    AdHocFmt(tmpl, FALSE, resolver, sinkKind, cap,
             [out |-> <<>>, error |-> stale, calls |-> <<>>])

\* C13: a render of a precompiled template through with_args writes the
\* same text, makes the same resolver calls and ends with the same result
\* and slot as the ad hoc engine on the same template, resolver and sink
\* (the first conjunct ties AdHocFmt to the stepwise ad hoc engine).
C13_CompiledMatchesAdHoc ==
    /\ (pc = "fmtdone" /\ entry \in {"format", "test"} => Outcome = AdHocOutcome)
    /\ (pc = "fmtdone" /\ entry = "compiled" => Outcome = AdHocOutcome)

C13_Witness ==
    /\ pc = "fmtdone"
    /\ entry = "compiled"
    /\ rebound
    /\ error.kind = "Key"
    /\ out # <<>>
\* the remainder a parse of t must leave, read off the template syntax
RefRemainder(t) ==
    LET open == UnmatchedOpen(t)
    IN  IF open = 0 THEN <<>> ELSE SubSeq(t, open + 1, Len(t))

\* C14: construction of a precompiled template fails with Parse exactly
\* when the parser leaves a non-empty remainder, the condition under which
\* an ad hoc render that got to the end fails with Parse, and the payload is
\* that remainder.
C14_CompileParse ==
    LET rest == RefRemainder(tmpl)
    IN  /\ (entry = "compiled" =>
                /\ (ret.tag = "Err" /\ ret.err.kind = "Parse") = (rest # <<>>)
                /\ (ret.err.kind = "Parse") = (s # <<>>)
                /\ (ret.err.kind = "Parse" =>
                        ret.err.payload = rest /\ ret.err.payload = s))
        /\ (entry \in {"format", "test"} /\ pc = "fmtdone" /\ ~sinkErr /\ ~UnknownKeyFailure =>
                /\ (error.kind = "Parse") = (rest # <<>>)
                /\ (error.kind = "Parse" => error.payload = rest))

C14_Witness ==
    /\ pc = "done"
    /\ entry = "compiled"
    /\ tmpl = <<"{", "}", "{", "a">>
    /\ pred = [declared |-> TRUE, keys |-> {}]
    /\ ret.err = [kind |-> "Parse", payload |-> <<"a">>]

\* every Literal's text and the marker {name} of every Key, in order
RECURSIVE Reconstruct(_)
Reconstruct(segs) ==
    IF segs = <<>> THEN <<>>
    ELSE (IF Head(segs).kind = "Literal" THEN Head(segs).text
          ELSE <<"{">> \o Head(segs).text \o <<"}">>)
         \o Reconstruct(Tail(segs))

\* the template with every escape "{{" folded to "{" and without an opening
\* "{" that ends it, read character by character
RECURSIVE Fold(_, _, _)
Fold(t, i, mode) ==
    IF i > Len(t) THEN <<>>
    ELSE IF mode = "lit"
         THEN (IF t[i] = "{" THEN Fold(t, i + 1, "open") ELSE <<t[i]>> \o Fold(t, i + 1, "lit"))
    ELSE IF mode = "open"
         THEN (IF t[i] = "{" THEN <<"{">> \o Fold(t, i + 1, "lit")
               ELSE <<"{", t[i]>> \o Fold(t, i + 1, IF t[i] = "}" THEN "lit" ELSE "key"))
    ELSE <<t[i]>> \o Fold(t, i + 1, IF t[i] = "}" THEN "lit" ELSE "key")

NoDoubledOpen(t) == \A i \in 1..(Len(t) - 1) : ~(t[i] = "{" /\ t[i + 1] = "{")

\* C15 as stated: for a template parsed without remainder the Literal texts
\* and Key markers concatenate to the template (taken over the templates
\* that leave no "{" unmatched, so a "{" that ends the template plays no
\* part).
C15_Lossless ==
    (entry = "compiled" /\ s = <<>> /\ UnmatchedOpen(tmpl) = 0) =>
        Reconstruct(segments) = tmpl

\* C15 as amended: for a template parsed without remainder the Literal
\* texts and Key markers concatenate to the template with every escape "{{"
\* folded to "{" and without an opening "{" that ends the template; they
\* concatenate to the template itself when it holds no "{{" and does not
\* end in "{".
C15_LosslessUpToEscapes ==
    (entry = "compiled" /\ s = <<>>) =>
        LET text == Reconstruct(segments)
        IN  /\ text = Fold(tmpl, 1, "lit")
            /\ (NoDoubledOpen(tmpl) /\ (tmpl = <<>> \/ tmpl[Len(tmpl)] # "{") =>
                    text = tmpl)

C15_Witness ==
    /\ pc = "compiled"
    /\ tmpl = <<"{", "{", "{", "a", "}">>
    /\ Reconstruct(segments) = <<"{", "{", "a", "}">>

\* the names of the Key segments, in order
RECURSIVE KeyNames(_)
KeyNames(segs) ==
    IF segs = <<>> THEN <<>>
    ELSE (IF Head(segs).kind = "Key" THEN <<Head(segs).text>> ELSE <<>>)
         \o KeyNames(Tail(segs))

\* the texts strictly between an opening "{" and the next "}", read off the
\* template character by character
RECURSIVE ScanKeys(_, _, _, _, _)
ScanKeys(t, i, mode, cur, acc) ==
    IF i > Len(t) THEN acc
    ELSE IF mode = "lit"
         THEN ScanKeys(t, i + 1, IF t[i] = "{" THEN "open" ELSE "lit", <<>>, acc)
    ELSE IF mode = "open" /\ t[i] = "{" THEN ScanKeys(t, i + 1, "lit", <<>>, acc)
    ELSE IF t[i] = "}" THEN ScanKeys(t, i + 1, "lit", <<>>, Append(acc, cur))
    ELSE ScanKeys(t, i + 1, "key", Append(cur, t[i]), acc)

RefKeys(t) == ScanKeys(t, 1, "lit", <<>>, <<>>)

\* C17: the name of every Key segment is the text strictly between its
\* opening "{" and the next "}": no delimiters around it, no "}" in it, no
\* "{" at its start; the empty name of "{}" is a Key segment like any other
\* and is handed to the resolver.
C17_KeyNames ==
    /\ (entry = "compiled" => KeyNames(segments) = RefKeys(tmpl))
    /\ (calls # <<>> =>
            /\ Len(calls) <= Len(RefKeys(tmpl))
            /\ calls = SubSeq(RefKeys(tmpl), 1, Len(calls)))
    /\ \A i \in 1..Len(segments) :
           segments[i].kind = "Key" =>
               /\ \A j \in 1..Len(segments[i].text) : segments[i].text[j] # "}"
               /\ (segments[i].text # <<>> => segments[i].text[1] # "{")
    /\ (Rendered /\ result = "Ok" => calls = RefKeys(tmpl))

C17_Witness ==
    /\ pc = "done"
    /\ entry = "format"
    /\ tmpl = <<"{", "}">>
    /\ calls = << <<>> >>
    /\ ret.tag = "Ok"

\* C18 as stated: "{{" alone parses to exactly one segment, the Literal "{".
C18_OneSegment ==
    (entry = "compiled" /\ tmpl = <<"{", "{">>) =>
        /\ segments = <<[kind |-> "Literal", text |-> <<"{">>]>>
        /\ s = <<>>

\* C18 as amended: "{{" alone parses to two segments, the empty Literal in
\* front of the first "{" and the Literal "{", with an empty remainder; an
\* escape yields a Literal that starts with one "{" and goes on with the
\* literal text up to the next "{", and no other Literal holds a "{".
C18_EscapeLiteral ==
    entry = "compiled" =>
        /\ (tmpl = <<"{", "{">> =>
                /\ segments = <<[kind |-> "Literal", text |-> <<>>],
                                [kind |-> "Literal", text |-> <<"{">>]>>
                /\ s = <<>>
                /\ ret.tag = "Ok")
        /\ \A i \in 1..Len(segments) :
               segments[i].kind = "Literal" =>
                   IF i > 1 /\ segments[i - 1].kind = "Literal"
                   THEN /\ segments[i].text # <<>>
                        /\ segments[i].text[1] = "{"
                        /\ \A j \in 2..Len(segments[i].text) : segments[i].text[j] # "{"
                   ELSE \A j \in 1..Len(segments[i].text) : segments[i].text[j] # "{"

C18_Witness ==
    /\ pc = "compiled"
    /\ tmpl = <<"{", "{">>
    /\ Len(segments) = 2
    /\ segments[2].text = <<"{">>

\* C19: in a render the literals are written and the resolver is called in
\* template order, once per Key segment taken (a repeated key once per
\* occurrence); a successful render has taken every segment; after the
\* first failing call or write the same render makes no further call or
\* write; one step makes at most one call and only appends to the sink.
C19_Ordering ==
    /\ [](pc \in {"fmt", "fmtdone"} =>
            /\ calls = KeyNames(SubSeq(Parsed.segments, 1, SegmentsDone))
            /\ (pc = "fmt" => out = OutputOf(SegmentsDone))
            /\ (result = "Ok" =>
                    SegmentsDone = Len(Parsed.segments) /\ out = OutputOf(SegmentsDone)))
    /\ [][(result = "Err" /\ pc' # "fmt") => (out' = out /\ calls' = calls)]_vars
    /\ [][(pc = "fmt") =>
            /\ Len(calls') <= Len(calls) + 1
            /\ SubSeq(calls', 1, Len(calls)) = calls
            /\ SubSeq(out', 1, Len(out)) = out]_vars

C19_Witness ==
    /\ pc = "fmtdone"
    /\ tmpl = <<"{", "}", "{", "}">>
    /\ calls = << <<>>, <<>> >>
    /\ result = "Ok"
    /\ out = <<"}", "}">>

\* C20: the segments of a precompiled template are those of its
\* construction whatever with_args calls and renders follow, and every
\* with_args call hands out a renderer at the first segment with an empty
\* slot of its own.
C20_SegmentsFrozen ==
    /\ [](entry = "compiled" => segments = Parsed.segments)
    /\ [][entry = "compiled" => segments' = segments]_vars
    /\ [][(pc # "fmt" /\ pc' = "fmt" /\ entry = "compiled" /\ stale' = NoError) =>
                (error' = NoError /\ idx' = 1)]_vars

C20_Witness ==
    /\ pc = "fmtdone"
    /\ entry = "compiled"
    /\ rebound
    /\ result = "Ok"
    /\ calls # <<>>
    /\ segments = Parsed.segments

\* the step of the ad hoc loop just taken got a segment from the parser: the
\* render goes on, or that segment's write or resolver call failed
YieldedStep ==
    /\ pc = "fmt"
    /\ entry \in {"format", "test"}
    /\ (pc' = "fmt" \/ sinkErr' \/ calls' # calls)

\* the step of the ad hoc loop just taken was told by the parser that it
\* is at the end
EndStep ==
    /\ pc = "fmt"
    /\ entry \in {"format", "test"}
    /\ pc' = "fmtdone"
    /\ ~sinkErr'
    /\ calls' = calls

\* the parser of this state has reported the end
ParserEnded ==
    \/ entry = "compiled"
    \/ /\ entry \in {"format", "test"}
       /\ pc = "fmtdone"
       /\ ~sinkErr
       /\ ~UnknownKeyFailure

\* C21: a parser call that yields a segment strictly shortens the
\* unconsumed input, so at most Len(tmpl) segments come out of a template;
\* the call that reports the end leaves remainder and state as they are,
\* and a parser that has reported the end (input exhausted, or stopped at
\* an unterminated placeholder) reports it again on every further call.
C21_ParserProgress ==
    /\ [][YieldedStep => Len(s') < Len(s)]_vars
    /\ [][EndStep => (s' = s /\ is_key' = is_key)]_vars
    /\ [](entry = "compiled" => Len(segments) <= Len(tmpl) - Len(s))
    /\ [](ParserEnded =>
            /\ (s = <<>> \/ (is_key /\ Head(s) # "{" /\ \A i \in 1..Len(s) : s[i] # "}"))
            /\ ParserNext(s, is_key) =
                    [some |-> FALSE, seg |-> [kind |-> "Literal", text |-> <<>>],
                     s |-> s, is_key |-> is_key])

C21_Witness ==
    /\ pc = "fmtdone"
    /\ entry = "format"
    /\ tmpl = <<"a", "{", "}", "{", "a">>
    /\ s = <<"a">>
    /\ is_key
    /\ error.kind = "Parse"

\* C22: construction of a precompiled template gives Parse precedence over
\* UnknownKey: when the parser leaves a non-empty remainder the result is
\* Parse with that remainder, also when the static predicate rejects a Key
\* segment before the unterminated placeholder; UnknownKey is returned only
\* when the remainder is empty.
C22_ParsePrecedence ==
    entry = "compiled" =>
        /\ (s # <<>> =>
                ret = [tag |-> "Err", text |-> <<>>,
                       err |-> [kind |-> "Parse", payload |-> s]])
        /\ (RefRemainder(tmpl) # <<>> => ret.err.kind = "Parse")
        /\ (ret.err.kind = "Key" =>
                /\ s = <<>>
                /\ RefRemainder(tmpl) = <<>>
                /\ StaticRejected # {})

C22_Witness ==
    /\ pc = "done"
    /\ entry = "compiled"
    /\ tmpl = <<"{", "a", "}", "{", "a">>
    /\ pred = [declared |-> TRUE, keys |-> {<<>>}]
    /\ StaticRejected = {2}
    /\ ret.err = [kind |-> "Parse", payload |-> <<"a">>]

\* the static predicate p and the resolver instance r agree on every key
\* name of the template: p accepts a name exactly when r does not report it
\* as unknown
Agrees(p, r) ==
    LET segs == Parsed.segments
    IN  \A i \in 1..Len(segs) :
            segs[i].kind = "Key" =>
                IsAcceptableKey(p, segs[i].text) = (Lookup(r, segs[i].text) # "unknown")

\* what format(tmpl, r) returns
OneShot(r) ==
    LET a == AdHocFmt(tmpl, FALSE, r, "String", 0,
                      [out |-> <<>>, error |-> NoError, calls |-> <<>>])
    IN  FormatResult(a.result, a.error, a.out)

\* what Format::<F>::new(tmpl) returns for a resolver type with predicate p
Precompile(p) == FormatNewResult(Parsed, p)

\* both succeed, or both fail with the same kind and payload
SameError(a, b) == a.tag = b.tag /\ a.err = b.err

\* C23 as stated: when the static predicate agrees with the instance (and
\* the resolver reports no sink failure), construction of the precompiled
\* template and the one-shot render both succeed or both fail with the
\* same error.
C23_SameError ==
    /\ (entry = "format" /\ pc = "done" /\ ret.tag # "panic" =>
            \A p \in Predicates : Agrees(p, resolver) => SameError(ret, Precompile(p)))
    /\ (entry = "compiled" /\ pc \in {"compiled", "done"} =>
            \A r \in Resolvers :
                (Agrees(pred, r) /\ OneShot(r).tag # "panic") => SameError(ret, OneShot(r)))

\* C23 as amended: under the same agreement, and when the resolver reports
\* no sink failure, the two report the same error, except for a template
\* that leaves a non-empty remainder after a rejected Key segment: there
\* construction reports Parse with the remainder and the one-shot render
\* reports UnknownKey with the first rejected key.
C23_SameErrorUnlessKeyBeforeParse ==
    /\ (entry = "format" /\ pc = "done" /\ ret.tag # "panic" =>
            \A p \in Predicates : Agrees(p, resolver) =>
                IF RefRemainder(tmpl) # <<>> /\ RejectedIndexes # {}
                THEN /\ ret = [tag |-> "Err", text |-> <<>>,
                               err |-> [kind |-> "Key",
                                        payload |-> Parsed.segments[FirstRejected].text]]
                     /\ Precompile(p) = [tag |-> "Err", text |-> <<>>,
                                         err |-> [kind |-> "Parse",
                                                  payload |-> RefRemainder(tmpl)]]
                ELSE SameError(ret, Precompile(p)))
    /\ (entry = "compiled" /\ pc \in {"compiled", "done"} =>
            \A r \in Resolvers :
                (Agrees(pred, r) /\ OneShot(r).tag # "panic") =>
                    IF RefRemainder(tmpl) # <<>> /\ StaticRejected # {}
                    THEN /\ ret = [tag |-> "Err", text |-> <<>>,
                                   err |-> [kind |-> "Parse",
                                            payload |-> RefRemainder(tmpl)]]
                         /\ OneShot(r) = [tag |-> "Err", text |-> <<>>,
                                          err |-> [kind |-> "Key",
                                                   payload |-> Parsed.segments[FirstStaticRejected].text]]
                    ELSE SameError(ret, OneShot(r)))

C23_Witness ==
    /\ pc = "done"
    /\ entry = "format"
    /\ tmpl = <<"{", "a", "}", "{", "a">>
    /\ ret.err = [kind |-> "Key", payload |-> <<"a">>]
    /\ Agrees([declared |-> TRUE, keys |-> {<<>>}], resolver)
    /\ Precompile([declared |-> TRUE, keys |-> {<<>>}]).err.kind = "Parse"

\* C24: a render attempt never clears the slot.  While an attempt runs the
\* slot holds what it held when the attempt began, and it still does after
\* an attempt that succeeds or that fails only with a sink failure, so an
\* error left by an earlier attempt of the same Formatter or CompiledFmt
\* is still there; an occupied slot becomes empty only when the caller
\* takes the error or puts a new renderer in the engine's place.
C24_SlotNeverCleared ==
    /\ [](pc = "fmt" => error = stale)
    /\ []((pc = "fmtdone" /\ (result = "Ok" \/ sinkErr)) => error = stale)
    /\ [][(error.kind # "None" /\ error'.kind = "None") =>
            /\ pc = "fmtdone"
            /\ \/ pc' = "done"
               \/ entry = "compiled" /\ pc' = "fmt" /\ stale' = NoError]_vars

C24_Witness ==
    /\ pc = "fmtdone"
    /\ entry = "test"
    /\ tmpl = <<"{", "}">>
    /\ stale = [kind |-> "Key", payload |-> <<>>]
    /\ result = "Ok"
    /\ out = <<"}">>
    /\ error = stale
====
